---- MODULE Spec2Model ----
(***************************************************************************)
(* A model of image_compressor's folder pipeline: FolderCompressor::compress *)
(* (src/src/lib.rs), the worker loops process / process_with_sender, the    *)
(* single-file Compressor::compress_to_jpg (src/src/compressor.rs), the     *)
(* crawler get_file_list (src/src/crawler.rs) and delete_recursive          *)
(* (src/src/dir.rs), over an abstract file system.                          *)
(*                                                                         *)
(* A path is a sequence of names; a name is a sequence of tokens in which   *)
(* the token "." stands for the dot character, so that file_stem, extension *)
(* and the hidden-file test are computed as std::path computes them.        *)
(***************************************************************************)
EXTENDS Integers, Sequences, FiniteSets, TLC

\* ------------------------------------------------------------------ bounds
MaxThreads == 2
MaxFiles == 2
MaxPruneFiles == 2

\* ------------------------------------------------------------------ paths
Parent(p) == SubSeq(p, 1, Len(p) - 1)

FileName(p) == p[Len(p)]

Join(p, q) == p \o q

IsPrefix(base, p) == Len(base) <= Len(p) /\ SubSeq(p, 1, Len(base)) = base

\* Path::strip_prefix: Ok(rest) when base is a prefix of p, Err otherwise.
StripPrefix(p, base) ==
    IF IsPrefix(base, p)
    THEN [ok |-> TRUE, rest |-> SubSeq(p, Len(base) + 1, Len(p))]
    ELSE [ok |-> FALSE, rest |-> <<>>]

\* Index of the last "." of a name, 0 when there is none.
LastDot(n) ==
    LET D == {i \in 1..Len(n) : n[i] = "."}
    IN IF D = {} THEN 0 ELSE CHOOSE i \in D : \A j \in D : j <= i

\* Path::file_stem: the whole name when it has no dot or only a leading dot,
\* otherwise what precedes the last dot.
FileStem(n) == IF LastDot(n) <= 1 THEN n ELSE SubSeq(n, 1, LastDot(n) - 1)

\* Path::extension: what follows the last dot, nothing when file_stem is the name.
Extension(n) == IF LastDot(n) <= 1 THEN <<>> ELSE SubSeq(n, LastDot(n) + 1, Len(n))

\* PathBuf::set_extension applied to a file name.
SetExtension(n, e) == FileStem(n) \o <<".", e>>

\* The first character of the name is '.'.
IsHidden(n) == n[1] = "."

\* ------------------------------------------------------------------ the trees
root == << <<"src">> >>

dest == << <<"dst">> >>

subDir == <<"d">>

fileA == Join(root, << <<"a", ".", "jpg">> >>)

fileB == Join(root, << subDir, <<"b", ".", "txt">> >>)

fileC == Join(root, << subDir, <<"c", ".", "png">> >>)

fileD == Join(root, << <<"a", ".", "png">> >>)

fileH == Join(root, << subDir, <<".", "h">> >>)

Candidates == {fileA, fileB, fileC, fileD, fileH}

\* Two more files for the runs of one worker: a .jpg the image crate cannot
\* decode, and a .jpg whose stem holds a dot.
fileE == Join(root, << <<"e", ".", "jpg">> >>)

fileF == Join(root, << <<"f", ".", "v2", ".", "jpg">> >>)

FileCandidates == Candidates \cup {fileE, fileF}

\* Two files for the runs about delete_duplicate_file: a picture whose stem
\* holds a dot, and a text file one directory below it whose stem is what the
\* picture's intermediate file gets.
fileG == Join(root, << <<"g", ".", "v2", ".", "png">> >>)

fileGText == Join(root, << subDir, <<"g", ".", "txt">> >>)

DedupCandidates == {fileC, fileG, fileGText}

\* What a file holds: whether the image crate can decode it, its length in
\* bytes, and where its bytes come from.
Original(p, dec, size) ==
    [dec |-> dec, size |-> size, tag |-> "orig", of |-> p, q |-> 0, r |-> 0]

InitialContent(p) ==
    IF p = fileA THEN Original(p, TRUE, 2000000)
    ELSE IF p = fileB THEN Original(p, FALSE, 400)
    ELSE IF p = fileC THEN Original(p, TRUE, 50000)
    ELSE IF p = fileD THEN Original(p, TRUE, 600000)
    ELSE IF p = fileE THEN Original(p, FALSE, 300)
    ELSE IF p = fileF THEN Original(p, TRUE, 3000000)
    ELSE IF p = fileG THEN Original(p, TRUE, 200000)
    ELSE Original(p, FALSE, 10)

Converted(c) == [c EXCEPT !.tag = "conv", !.size = c.size]

Compressed(c, f) == [c EXCEPT !.tag = "comp", !.q = f.quality, !.r = f.size_ratio]

\* ------------------------------------------------------------------ Factor
\* quality is a number of percent; size_ratio is kept in hundredths, so that
\* 0.75 is 75 and the upper limit 1. is 100.
\* Mutant of FactorNew: the lower limits are inclusive.
FactorNewInclusiveZero(quality, size_ratio) ==
    IF (quality >= 0 /\ quality <= 100) /\ (size_ratio >= 0 /\ size_ratio <= 100)
    THEN [ok |-> TRUE, quality |-> quality, size_ratio |-> size_ratio]
    ELSE [ok |-> FALSE, quality |-> 0, size_ratio |-> 0]

FactorNew(quality, size_ratio) ==
    IF (quality > 0 /\ quality <= 100) /\ (size_ratio > 0 /\ size_ratio <= 100)
    THEN [ok |-> TRUE, quality |-> quality, size_ratio |-> size_ratio]
    ELSE [ok |-> FALSE, quality |-> 0, size_ratio |-> 0]

\* Mutant of default_cal_func: the same factor whatever the file's size.
default_cal_func_flat(width, height, file_size) == FactorNew(80, 80)

default_cal_func(width, height, file_size) ==
    IF file_size > 5000000 THEN FactorNew(60, 70)
    ELSE IF file_size > 1000000 THEN FactorNew(65, 75)
    ELSE IF file_size > 500000 THEN FactorNew(70, 80)
    ELSE IF file_size > 300000 THEN FactorNew(75, 85)
    ELSE IF file_size > 100000 THEN FactorNew(80, 90)
    ELSE FactorNew(85, 100)

\* A calculator a caller may pass to set_cal_func: it scales an image down
\* to about one megabyte, Factor::new(90., 1000000. / file_size as f32).
by_size_cal_func(width, height, file_size) ==
    FactorNew(90, IF file_size = 0 THEN 0 ELSE (100 * 1000000) \div file_size)

\* A calculator a caller may pass to set_cal_func: the same factor for every
\* file, |width, height, file_size| Factor::new(quality, size_ratio).
const_cal_func(quality, size_ratio) ==
    [name |-> "const", quality |-> quality, size_ratio |-> size_ratio]

\* The function pointers calculate_quality_and_size may hold.
DefaultCal == [name |-> "default"]

BySizeCal == [name |-> "by_size"]

CalFuncs == {DefaultCal, BySizeCal}

CalFactor(cal, width, height, file_size) ==
    IF cal.name = "default" THEN default_cal_func(width, height, file_size)
    ELSE IF cal.name = "by_size" THEN by_size_cal_func(width, height, file_size)
    ELSE FactorNew(cal.quality, cal.size_ratio)

\* ------------------------------------------------------------------ file system
\* A file system is [files : path -> content, dirs : set of paths].
IsFile(fs, p) == p \in DOMAIN fs.files

IsDir(fs, p) == p \in fs.dirs

ReadDir(fs, d) ==
    {p \in (DOMAIN fs.files) \cup fs.dirs : Len(p) = Len(d) + 1 /\ Parent(p) = d}

\* File::create + write_all, img.save, fs::copy's destination: the parent must
\* be a directory and the path must not be one; an existing file is truncated.
CanWrite(fs, p) == IsDir(fs, Parent(p)) /\ ~IsDir(fs, p)

WriteFile(fs, p, c) ==
    [fs EXCEPT !.files = [x \in (DOMAIN fs.files) \cup {p} |->
                            IF x = p THEN c ELSE fs.files[x]]]

RemoveFile(fs, p) ==
    [fs EXCEPT !.files = [x \in (DOMAIN fs.files) \ {p} |-> fs.files[x]]]

Prefixes(p) == {SubSeq(p, 1, k) : k \in 1..Len(p)}

\* fs::create_dir_all: fails when a component of the path is a regular file.
CanCreateDirAll(fs, p) == \A x \in Prefixes(p) : ~IsFile(fs, x)

CreateDirAll(fs, p) == [fs EXCEPT !.dirs = fs.dirs \cup Prefixes(p)]

\* Mutant of RemoveDirAll: fs::remove_dir, which leaves a directory that
\* still holds something.
RemoveDirIfEmpty(fs, d) ==
    IF \E y \in (DOMAIN fs.files) \cup fs.dirs : y # d /\ IsPrefix(d, y) THEN fs
    ELSE [fs EXCEPT !.dirs = fs.dirs \ {d}]

\* fs::remove_dir_all: the directory and everything below it.
RemoveDirAll(fs, d) ==
    [files |-> [x \in {y \in DOMAIN fs.files : ~IsPrefix(d, y)} |-> fs.files[x]],
     dirs |-> {y \in fs.dirs : ~IsPrefix(d, y)}]

\* All the orders in which read_dir may yield the entries of a directory.
Orders(S) ==
    {s \in [1..Cardinality(S) -> S] : \A i, j \in 1..Cardinality(S) : i # j => s[i] # s[j]}

\* ------------------------------------------------------------------ crawler
\* get_file_list's loop from index i on: file_list is the growing work list,
\* image_list the result so far. The set of results over every read_dir order.
RECURSIVE Crawl(_, _, _, _)
RECURSIVE CrawlSkipsHiddenDirs(_, _, _, _)
\* Mutant of Crawl: a directory whose name starts with '.' is not descended.
CrawlSkipsHiddenDirs(fs, file_list, i, image_list) ==
    IF i > Len(file_list) THEN {[ok |-> TRUE, list |-> image_list]}
    ELSE IF IsDir(fs, file_list[i]) /\ ~IsHidden(FileName(file_list[i]))
    THEN UNION {CrawlSkipsHiddenDirs(fs, file_list \o ord, i + 1, image_list) :
                  ord \in Orders(ReadDir(fs, file_list[i]))}
    ELSE IF ~IsHidden(FileName(file_list[i]))
    THEN CrawlSkipsHiddenDirs(fs, file_list, i + 1, Append(image_list, file_list[i]))
    ELSE CrawlSkipsHiddenDirs(fs, file_list, i + 1, image_list)

Crawl(fs, file_list, i, image_list) ==
    IF i > Len(file_list) THEN {[ok |-> TRUE, list |-> image_list]}
    ELSE IF IsDir(fs, file_list[i])
    THEN UNION {Crawl(fs, file_list \o ord, i + 1, image_list) :
                  ord \in Orders(ReadDir(fs, file_list[i]))}
    ELSE IF ~IsHidden(FileName(file_list[i]))
    THEN Crawl(fs, file_list, i + 1, Append(image_list, file_list[i]))
    ELSE Crawl(fs, file_list, i + 1, image_list)

\* Mutant of get_file_list: a root that cannot be read lists as empty.
get_file_list_lenient(f, dir) ==
    IF ~IsDir(f, dir) THEN {[ok |-> TRUE, list |-> <<>>]}
    ELSE UNION {Crawl(f, ord, 1, <<>>) : ord \in Orders(ReadDir(f, dir))}

get_file_list(fs, dir) ==
    IF ~IsDir(fs, dir) THEN {[ok |-> FALSE, list |-> <<>>]}
    ELSE UNION {Crawl(fs, ord, 1, <<>>) : ord \in Orders(ReadDir(fs, dir))}

\* ------------------------------------------------------------------ cleanup
\* delete_recursive: [ok, kind, fs] where fs is the file system it leaves.
RECURSIVE delete_recursive(_, _)
RECURSIVE DeleteChildren(_, _, _)
RECURSIVE DeleteChildrenUntilBlocked(_, _, _)
\* The for loop over the entries still to visit: the file system after the
\* recursive calls and whether is_file_exist was set.
\* Mutant of DeleteChildren: the loop ends at the first entry that blocks.
DeleteChildrenUntilBlocked(fs, todo, is_file_exist) ==
    IF todo = {} \/ is_file_exist THEN [fs |-> fs, is_file_exist |-> is_file_exist]
    ELSE LET content_path == CHOOSE c \in todo : TRUE
             rest == todo \ {content_path}
         IN IF IsDir(fs, content_path)
            THEN LET r == delete_recursive(fs, content_path)
                 IN DeleteChildrenUntilBlocked(r.fs, rest, is_file_exist \/ ~r.ok)
            ELSE DeleteChildrenUntilBlocked(fs, rest,
                                is_file_exist \/ ~IsHidden(FileName(content_path)))

DeleteChildren(fs, todo, is_file_exist) ==
    IF todo = {} THEN [fs |-> fs, is_file_exist |-> is_file_exist]
    ELSE LET content_path == CHOOSE c \in todo : TRUE
             rest == todo \ {content_path}
         IN IF IsDir(fs, content_path)
            THEN LET r == delete_recursive(fs, content_path)
                 IN DeleteChildren(r.fs, rest, is_file_exist \/ ~r.ok)
            ELSE DeleteChildren(fs, rest,
                                is_file_exist \/ ~IsHidden(FileName(content_path)))

\* Mutant of delete_recursive: a path that is no directory is reported with
\* the kind of the not-empty error.
delete_recursive_one_error(fs, dir) ==
    IF IsDir(fs, dir)
    THEN LET r == DeleteChildren(fs, ReadDir(fs, dir), FALSE)
         IN IF ~r.is_file_exist
            THEN [ok |-> TRUE, kind |-> "Ok", fs |-> RemoveDirAll(r.fs, dir)]
            ELSE [ok |-> FALSE, kind |-> "AlreadyExists", fs |-> r.fs]
    ELSE [ok |-> FALSE, kind |-> "AlreadyExists", fs |-> fs]

\* Mutant of delete_recursive: a call that fails leaves every directory.
delete_recursive_all_or_nothing(fs, dir) ==
    IF IsDir(fs, dir)
    THEN LET r == DeleteChildren(fs, ReadDir(fs, dir), FALSE)
         IN IF ~r.is_file_exist
            THEN [ok |-> TRUE, kind |-> "Ok", fs |-> RemoveDirAll(r.fs, dir)]
            ELSE [ok |-> FALSE, kind |-> "AlreadyExists", fs |-> fs]
    ELSE [ok |-> FALSE, kind |-> "InvalidInput", fs |-> fs]

delete_recursive(fs, dir) ==
    IF IsDir(fs, dir)
    THEN LET r == DeleteChildren(fs, ReadDir(fs, dir), FALSE)
         IN IF ~r.is_file_exist
            THEN [ok |-> TRUE, kind |-> "Ok", fs |-> RemoveDirAll(r.fs, dir)]
            ELSE [ok |-> FALSE, kind |-> "AlreadyExists", fs |-> r.fs]
    ELSE [ok |-> FALSE, kind |-> "InvalidInput", fs |-> fs]

\* ------------------------------------------------------------------ state
VARIABLES
    fs,                 \* the file system: [files, dirs]
    fs0,                \* history: the file system compress() started from
    self,               \* the FolderCompressor: thread_count, delete_original, sender, cal
    opc,                \* where compress() stands
    to_comp_file_list,  \* the crawl's result
    queue,              \* the SegQueue of paths
    spawned,            \* the number of handles pushed
    joined,             \* the number of handles joined
    wpc,                \* where each worker stands
    wjob,               \* the file a worker popped
    wdir,               \* its new_dest_dir
    wconv,              \* its converted_file
    wfactor,            \* its factor
    wimg,               \* the image data it resized
    wres,               \* what compress_to_jpg returns to it
    chan,               \* the messages the receiver has got, in order
    rx_alive,           \* the Receiver has not been dropped
    pop_count,          \* history: how often each path was popped
    call_count,         \* history: how often compress_to_jpg was entered for each path
    attempts            \* history: the finished job attempts, [file, res]

vars ==
    <<fs, fs0, self, opc, to_comp_file_list, queue, spawned, joined, wpc, wjob,
      wdir, wconv, wfactor, wimg, wres, chan, rx_alive, pop_count, call_count, attempts>>

Workers == 1..MaxThreads

NoPath == <<>>

NoImage == Original(NoPath, FALSE, 0)

NoFactor == [ok |-> FALSE, quality |-> 0, size_ratio |-> 0]

\* The destination trees a run may start from: an empty destination root,
\* and one that already holds a.jpg and in which a regular file stands where
\* the sub-directory must be made.
DestTrees == {"empty", "occupied"}

DestFiles(t) ==
    IF t = "occupied"
    THEN {Join(dest, <<subDir>>), Join(dest, << <<"a", ".", "jpg">> >>)}
    ELSE {}

InitialFs(S, t, root_exists) ==
    [files |-> [p \in S \cup DestFiles(t) |->
                  IF p \in S THEN InitialContent(p) ELSE Original(p, FALSE, 7)],
     dirs |-> {dest} \cup (IF root_exists THEN {root, Join(root, <<subDir>>)} ELSE {})]

\* The source trees: the source root is missing, or it holds a sub-directory
\* and at most MaxFiles of the candidate files.
SourceTrees == {S \in SUBSET Candidates : Cardinality(S) <= MaxFiles}

Init ==
    /\ \E S \in SourceTrees, t \in DestTrees, root_exists \in BOOLEAN :
          /\ ~root_exists => S = {}
          /\ fs = InitialFs(S, t, root_exists)
    /\ fs0 = fs
    /\ self \in [thread_count : 0..MaxThreads, delete_original : BOOLEAN,
                 sender : BOOLEAN, cal : CalFuncs]
    /\ opc = "start"
    /\ to_comp_file_list = <<>>
    /\ queue = <<>>
    /\ spawned = 0
    /\ joined = 0
    /\ wpc = [w \in Workers |-> "idle"]
    /\ wjob = [w \in Workers |-> NoPath]
    /\ wdir = [w \in Workers |-> NoPath]
    /\ wconv = [w \in Workers |-> NoPath]
    /\ wfactor = [w \in Workers |-> NoFactor]
    /\ wimg = [w \in Workers |-> NoImage]
    /\ wres = [w \in Workers |-> "none"]
    /\ chan = <<>>
    /\ rx_alive = TRUE
    /\ pop_count = [p \in Candidates |-> 0]
    /\ call_count = [p \in Candidates |-> 0]
    /\ attempts = {}

\* ------------------------------------------------------------------ messages
\* Sender::send: the message reaches the receiver unless it was dropped, in
\* which case send_message prints the error and goes on.
send_message(c, message) == IF rx_alive THEN Append(c, message) ELSE c

try_send_message(c, message) == IF self.sender THEN send_message(c, message) ELSE c

\* Mutant of TotalMsg: the count is taken from the queue, not from the list.
TotalMsgOfQueue(n) == [kind |-> "total", text |-> <<"Total file count: ", Len(queue)>>]

TotalMsg(n) == [kind |-> "total", text |-> <<"Total file count: ", n>>]

CompleteMsg == [kind |-> "complete", text |-> <<"Compress complete!">>]

CleanupMsg(r) ==
    IF r.ok
    THEN [kind |-> "cleanup", text |-> <<"Delete original directories complete!">>]
    ELSE [kind |-> "cleanup", text |-> <<"Cannot delete original directories! ", r.kind>>]

JobMsg(res, name) ==
    IF res = "Ok"
    THEN [kind |-> "job", text |-> <<"Compress complete! File: ", name>>]
    ELSE [kind |-> "job", text |-> <<res, name>>]

\* The receiver is dropped by its owner, at any time.
Disconnect ==
    /\ self.sender
    /\ rx_alive
    /\ opc \notin {"returned", "returnedErr", "panicked"}
    /\ rx_alive' = FALSE
    /\ UNCHANGED <<fs, fs0, self, opc, to_comp_file_list, queue, spawned, joined, wpc,
                   wjob, wdir, wconv, wfactor, wimg, wres, chan, pop_count, call_count,
                   attempts>>

\* ------------------------------------------------------------------ compress()
Stopped == {"returned", "returnedErr", "panicked"}

\* let to_comp_file_list = get_file_list(&self.original_path)?;
CrawlRoot ==
    /\ opc = "start"
    /\ \E r \in get_file_list(fs, root) :
          IF r.ok
          THEN /\ to_comp_file_list' = r.list
               /\ opc' = "announce"
          ELSE /\ to_comp_file_list' = to_comp_file_list
               /\ opc' = "returnedErr"
    /\ UNCHANGED <<fs, fs0, self, queue, spawned, joined, wpc, wjob, wdir, wconv,
                   wfactor, wimg, wres, chan, rx_alive, pop_count, call_count, attempts>>

\* try_send_message(&self.sender, format!("Total file count: {}", ...));
Announce ==
    /\ opc = "announce"
    /\ chan' = try_send_message(chan, TotalMsg(Len(to_comp_file_list)))
    /\ opc' = "fill"
    /\ UNCHANGED <<fs, fs0, self, to_comp_file_list, queue, spawned, joined, wpc, wjob,
                   wdir, wconv, wfactor, wimg, wres, rx_alive, pop_count, call_count,
                   attempts>>

\* for i in to_comp_file_list { queue.push(i); }
Fill ==
    /\ opc = "fill"
    /\ queue' = queue \o to_comp_file_list
    /\ opc' = "spawn"
    /\ UNCHANGED <<fs, fs0, self, to_comp_file_list, spawned, joined, wpc, wjob, wdir,
                   wconv, wfactor, wimg, wres, chan, rx_alive, pop_count, call_count,
                   attempts>>

\* Mutant of SpawnLimit: at least one worker is started.
SpawnAtLeastOne == IF self.thread_count = 0 THEN 1 ELSE self.thread_count

\* The number of workers the spawn loop starts.
SpawnLimit == self.thread_count

\* for _ in 0..self.thread_count { handle = thread::spawn(...); handles.push(handle); }
Spawn ==
    /\ opc = "spawn"
    /\ IF spawned < SpawnLimit
       THEN /\ wpc' = [wpc EXCEPT ![spawned + 1] = "loop"]
            /\ spawned' = spawned + 1
            /\ opc' = opc
       ELSE /\ opc' = "join"
            /\ UNCHANGED <<wpc, spawned>>
    /\ UNCHANGED <<fs, fs0, self, to_comp_file_list, queue, joined, wjob, wdir, wconv,
                   wfactor, wimg, wres, chan, rx_alive, pop_count, call_count, attempts>>

\* Mutant of JoinReady: the join does not wait for the thread.
JoinReadyAtOnce(w) == TRUE

\* JoinHandle::join returns once the thread has ended.
JoinReady(w) == wpc[w] \in {"exited", "panicked"}

\* for h in handles { h.join().unwrap(); }
Join1 ==
    /\ opc = "join"
    /\ IF joined < spawned
       THEN /\ JoinReady(joined + 1)
            /\ IF wpc[joined + 1] = "panicked"
               THEN opc' = "panicked" /\ joined' = joined
               ELSE opc' = opc /\ joined' = joined + 1
       ELSE /\ opc' = "complete"
            /\ joined' = joined
    /\ UNCHANGED <<fs, fs0, self, to_comp_file_list, queue, spawned, wpc, wjob, wdir,
                   wconv, wfactor, wimg, wres, chan, rx_alive, pop_count, call_count,
                   attempts>>

\* try_send_message(&self.sender, "Compress complete!".to_string());
Complete ==
    /\ opc = "complete"
    /\ chan' = try_send_message(chan, CompleteMsg)
    /\ opc' = IF self.delete_original THEN "cleanup" ELSE "returned"
    /\ UNCHANGED <<fs, fs0, self, to_comp_file_list, queue, spawned, joined, wpc, wjob,
                   wdir, wconv, wfactor, wimg, wres, rx_alive, pop_count, call_count,
                   attempts>>

\* match delete_recursive(self.original_path) { Ok | Err => try_send_message }; return Ok(())
Cleanup ==
    /\ opc = "cleanup"
    /\ LET r == delete_recursive(fs, root)
       IN /\ fs' = r.fs
          /\ chan' = try_send_message(chan, CleanupMsg(r))
    /\ opc' = "returned"
    /\ UNCHANGED <<fs0, self, to_comp_file_list, queue, spawned, joined, wpc, wjob, wdir,
                   wconv, wfactor, wimg, wres, rx_alive, pop_count, call_count, attempts>>

\* ------------------------------------------------------------------ workers
\* What no worker step changes.
orchVars == <<fs0, self, opc, to_comp_file_list, spawned, joined, rx_alive>>

\* Mutant of TargetName: the output keeps the name of the source.
TargetNameKeepsExtension(file_name) == file_name

\* The name compress_to_jpg and convert_to_jpg give their output:
\* PathBuf::from(file_stem) with set_extension("jpg").
TargetName(file_name) == SetExtension(FileStem(file_name), "jpg")

TargetFile(target_dir, file) == Join(target_dir, <<TargetName(FileName(file))>>)

\* image::open: the file is there and the image crate decodes it.
CanOpenImage(f, p) == IsFile(f, p) /\ f.files[p].dec

\* The attempt of worker w's job ends with res: the job is dropped and the
\* worker is back at the head of its loop.
Finished(w, res) == attempts \cup {[file |-> wjob[w], res |-> res]}

\* while !queue.is_empty() {
WLoop(w) ==
    /\ wpc[w] = "loop"
    /\ wpc' = [wpc EXCEPT ![w] = IF queue = <<>> THEN "exited" ELSE "pop"]
    /\ UNCHANGED <<fs, orchVars, queue, wjob, wdir, wconv, wfactor, wimg, wres,
                   chan, pop_count, call_count, attempts>>

\* Mutant of PopRest: the job popped is pushed back at the end.
PopRestRequeues(q) == Append(Tail(q), Head(q))

\* Mutant of PopRest: the element read is left in the queue.
PopRestKeepsHead(q) == q

\* What SegQueue::pop leaves in the queue.
PopRest(q) == Tail(q)

\* match queue.pop() { None => break, Some(file) => ...
WPop(w) ==
    /\ wpc[w] = "pop"
    /\ IF queue = <<>>
       THEN /\ wpc' = [wpc EXCEPT ![w] = "exited"]
            /\ UNCHANGED <<queue, wjob, pop_count>>
       ELSE /\ wjob' = [wjob EXCEPT ![w] = Head(queue)]
            /\ queue' = PopRest(queue)
            /\ pop_count' = [pop_count EXCEPT ![Head(queue)] = @ + 1]
            /\ wpc' = [wpc EXCEPT ![w] = "mkdir"]
    /\ UNCHANGED <<fs, orchVars, wdir, wconv, wfactor, wimg, wres, chan,
                   call_count, attempts>>

\* Mutant of AfterSkip: `break` in place of `continue`.
AfterSkipBreak == "exited"

\* Where a worker goes after a job it abandons with `continue`.
AfterSkip == "loop"

\* let parent = file.parent().strip_prefix(root) ...; let new_dest_dir = dest.join(parent);
\* if !new_dest_dir.is_dir() { fs::create_dir_all(&new_dest_dir) ... }
\* (is_dir and create_dir_all are taken as one step.)
WMkdir(w) ==
    /\ wpc[w] = "mkdir"
    /\ LET parent == StripPrefix(Parent(wjob[w]), root)
           new_dest_dir == Join(dest, parent.rest)
           skip(res) == /\ wpc' = [wpc EXCEPT ![w] = AfterSkip]
                        /\ attempts' = Finished(w, res)
                        /\ wjob' = [wjob EXCEPT ![w] = NoPath]
                        /\ UNCHANGED <<fs, wdir>>
       IN IF ~parent.ok THEN skip("StripPrefix")
          ELSE IF ~IsDir(fs, new_dest_dir) /\ ~CanCreateDirAll(fs, new_dest_dir)
          THEN skip("CreateDir")
          ELSE /\ fs' = IF IsDir(fs, new_dest_dir) THEN fs
                        ELSE CreateDirAll(fs, new_dest_dir)
               /\ wdir' = [wdir EXCEPT ![w] = new_dest_dir]
               /\ wpc' = [wpc EXCEPT ![w] = "check"]
               /\ UNCHANGED <<wjob, attempts>>
    /\ UNCHANGED <<orchVars, queue, wconv, wfactor, wimg, wres, chan, pop_count,
                   call_count>>

\* compress_to_jpg, up to the two is_file tests (taken as one step).
WCheck(w) ==
    /\ wpc[w] = "check"
    /\ call_count' = [call_count EXCEPT ![wjob[w]] = @ + 1]
    /\ LET file_name == FileName(wjob[w])
           target_file == TargetFile(wdir[w], wjob[w])
       IN IF IsFile(fs, Join(wdir[w], <<file_name>>)) \/ IsFile(fs, target_file)
          THEN /\ wres' = [wres EXCEPT ![w] = "AlreadyExists"]
               /\ wpc' = [wpc EXCEPT ![w] = "report"]
          ELSE /\ wres' = wres
               /\ wpc' = [wpc EXCEPT ![w] =
                            IF Extension(file_name) # <<"jpg">>
                               /\ Extension(file_name) # <<"jpeg">>
                            THEN "convert" ELSE "encode"]
    /\ UNCHANGED <<fs, orchVars, queue, wjob, wdir, wconv, wfactor, wimg, chan,
                   pop_count, attempts>>

\* match self.convert_to_jpg() { Ok(p) => ..., Err(e) => { fs::copy(...)?; return Err } }
\* (image::open, img.save and the fallback fs::copy are taken as one step.)
WConvert(w) ==
    /\ wpc[w] = "convert"
    /\ LET file == wjob[w]
           new_path == Join(Parent(file), <<TargetName(FileName(file))>>)
           copy_to == Join(wdir[w], <<FileName(file)>>)
       IN IF CanOpenImage(fs, file) /\ CanWrite(fs, new_path)
          THEN /\ fs' = WriteFile(fs, new_path, Converted(fs.files[file]))
               /\ wconv' = [wconv EXCEPT ![w] = new_path]
               /\ wres' = wres
               /\ wpc' = [wpc EXCEPT ![w] = "encode"]
          ELSE /\ IF IsFile(fs, file) /\ CanWrite(fs, copy_to)
                  THEN /\ fs' = WriteFile(fs, copy_to, fs.files[file])
                       /\ wres' = [wres EXCEPT ![w] = "InvalidData"]
                  ELSE /\ fs' = fs
                       /\ wres' = [wres EXCEPT ![w] = "Io"]
               /\ wconv' = wconv
               /\ wpc' = [wpc EXCEPT ![w] = "report"]
    /\ UNCHANGED <<orchVars, queue, wjob, wdir, wfactor, wimg, chan, pop_count,
                   call_count, attempts>>

\* What a worker thread does when the calculator's Factor::new panics.
OnBadFactor == "panicked"

\* image::open(&current_file)?, origin_file_path.metadata(), the calculator,
\* self.resize(origin_file_path, ..)? and self.compress(..)? (one step: they
\* only read).
WEncode(w) ==
    /\ wpc[w] = "encode"
    /\ LET file == wjob[w]
           current_file == IF wconv[w] # NoPath THEN wconv[w] ELSE file
           file_size == IF IsFile(fs, file) THEN fs.files[file].size ELSE 0
           factor == CalFactor(self.cal, 0, 0, file_size)
       IN IF ~CanOpenImage(fs, current_file)
          THEN /\ wres' = [wres EXCEPT ![w] = "ImageError"]
               /\ wpc' = [wpc EXCEPT ![w] = "report"]
               /\ UNCHANGED <<wfactor, wimg>>
          ELSE IF ~factor.ok
          THEN /\ wpc' = [wpc EXCEPT ![w] = OnBadFactor]
               /\ wres' = [wres EXCEPT ![w] = "BadFactor"]
               /\ UNCHANGED <<wfactor, wimg>>
          ELSE IF ~CanOpenImage(fs, file)
          THEN /\ wres' = [wres EXCEPT ![w] = "ImageError"]
               /\ wpc' = [wpc EXCEPT ![w] = "report"]
               /\ UNCHANGED <<wfactor, wimg>>
          ELSE /\ wfactor' = [wfactor EXCEPT ![w] = factor]
               /\ wimg' = [wimg EXCEPT ![w] = fs.files[file]]
               /\ wpc' = [wpc EXCEPT ![w] = "write"]
               /\ wres' = wres
    /\ UNCHANGED <<fs, orchVars, queue, wjob, wdir, wconv, chan, pop_count,
                   call_count, attempts>>

\* Mutant of AfterWrite: the source is removed whatever the delete flag.
AfterWriteAlwaysRemoves(w) == IF wconv[w] # NoPath THEN "dedup" ELSE "remove"

\* The step that follows the write of the target file.
AfterWrite(w) ==
    IF wconv[w] # NoPath THEN "dedup"
    ELSE IF self.delete_original THEN "remove" ELSE "report"

\* let mut file = BufWriter::new(File::create(&target_file)?); file.write_all(..)?;
WWrite(w) ==
    /\ wpc[w] = "write"
    /\ LET target_file == TargetFile(wdir[w], wjob[w])
       IN IF CanWrite(fs, target_file)
          THEN /\ fs' = WriteFile(fs, target_file, Compressed(wimg[w], wfactor[w]))
               /\ wpc' = [wpc EXCEPT ![w] = AfterWrite(w)]
               /\ wres' = [wres EXCEPT ![w] =
                             IF AfterWrite(w) = "report" THEN "Ok" ELSE @]
          ELSE /\ fs' = fs
               /\ wpc' = [wpc EXCEPT ![w] = "report"]
               /\ wres' = [wres EXCEPT ![w] = "Io"]
    /\ UNCHANGED <<orchVars, queue, wjob, wdir, wconv, wfactor, wimg, chan,
                   pop_count, call_count, attempts>>

\* delete_duplicate_file(p): Ok, or the kind of its error.
DuplicateCheck(f, file_path) ==
    LET listed == CHOOSE r \in get_file_list(f, Parent(file_path)) : TRUE
        others == {listed.list[i] : i \in 1..Len(listed.list)} \ {file_path}
        t == FileStem(FileName(file_path))
    IN IF ~listed.ok THEN "Io"
       ELSE IF ~\E x \in others : FileStem(FileName(x)) = t THEN "NotFound"
       ELSE IF ~IsFile(f, file_path) THEN "Io"
       ELSE "Ok"

\* match converted_file { Some(p) => { delete_duplicate_file(p)?; } None => {} }
\* (the directory listing and fs::remove_file are taken as one step.)
WDedup(w) ==
    /\ wpc[w] = "dedup"
    /\ LET res == DuplicateCheck(fs, wconv[w])
       IN IF res = "Ok"
          THEN /\ fs' = RemoveFile(fs, wconv[w])
               /\ wpc' = [wpc EXCEPT ![w] =
                            IF self.delete_original THEN "remove" ELSE "report"]
               /\ wres' = [wres EXCEPT ![w] =
                             IF self.delete_original THEN @ ELSE "Ok"]
          ELSE /\ fs' = fs
               /\ wpc' = [wpc EXCEPT ![w] = "report"]
               /\ wres' = [wres EXCEPT ![w] = res]
    /\ UNCHANGED <<orchVars, queue, wjob, wdir, wconv, wfactor, wimg, chan,
                   pop_count, call_count, attempts>>

\* match self.delete_orininal { true => fs::remove_file(&self.original_path)?, .. }
WRemove(w) ==
    /\ wpc[w] = "remove"
    /\ IF IsFile(fs, wjob[w])
       THEN /\ fs' = RemoveFile(fs, wjob[w])
            /\ wres' = [wres EXCEPT ![w] = "Ok"]
       ELSE /\ fs' = fs
            /\ wres' = [wres EXCEPT ![w] = "Io"]
    /\ wpc' = [wpc EXCEPT ![w] = "report"]
    /\ UNCHANGED <<orchVars, queue, wjob, wdir, wconv, wfactor, wimg, chan,
                   pop_count, call_count, attempts>>

\* The channel after the worker has reported what compress_to_jpg returned:
\* process_with_sender sends one message, process only prints.
Reported(c, res, file, target_dir) ==
    IF self.sender
    THEN send_message(c, JobMsg(res, IF res = "Ok" THEN TargetName(FileName(file))
                                     ELSE FileName(file)))
    ELSE c

\* Mutant of AfterReport: the worker gives up when its send has failed.
AfterReportStopsOnSendError == IF self.sender /\ ~rx_alive THEN "exited" ELSE "loop"

\* Where a worker goes once the result of compress_to_jpg is reported: the
\* match is the last statement of the loop body.
AfterReport == "loop"

\* match compressor.compress_to_jpg() { Ok(p) => ..., Err(e) => ... } and back
\* to the head of the loop.
WReport(w) ==
    /\ wpc[w] = "report"
    /\ chan' = Reported(chan, wres[w], wjob[w], wdir[w])
    /\ attempts' = Finished(w, wres[w])
    /\ wpc' = [wpc EXCEPT ![w] = AfterReport]
    /\ wjob' = [wjob EXCEPT ![w] = NoPath]
    /\ wdir' = [wdir EXCEPT ![w] = NoPath]
    /\ wconv' = [wconv EXCEPT ![w] = NoPath]
    /\ wfactor' = [wfactor EXCEPT ![w] = NoFactor]
    /\ wimg' = [wimg EXCEPT ![w] = NoImage]
    /\ wres' = [wres EXCEPT ![w] = "none"]
    /\ UNCHANGED <<fs, orchVars, queue, pop_count, call_count>>

\* ------------------------------------------------------------------ process()
\* The run without a sink, written from process() and from the None arm of
\* try_send_message: the steps of FolderCompressor::process and of compress()
\* as relations over every variable but the channel.
lowVars == <<fs, fs0, self, opc, to_comp_file_list, queue, spawned, joined, wpc, wjob,
             wdir, wconv, wfactor, wimg, wres, pop_count, call_count, attempts>>

\* What no step of process() changes, the channel left out.
lowOrch == <<fs0, self, opc, to_comp_file_list, spawned, joined>>

\* try_send_message with sender = None does nothing; compress() goes on.
AnnounceNone ==
    /\ opc = "announce"
    /\ opc' = "fill"
    /\ UNCHANGED <<fs, fs0, self, to_comp_file_list, queue, spawned, joined, wpc, wjob,
                   wdir, wconv, wfactor, wimg, wres, pop_count, call_count, attempts>>

CompleteNone ==
    /\ opc = "complete"
    /\ opc' = IF self.delete_original THEN "cleanup" ELSE "returned"
    /\ UNCHANGED <<fs, fs0, self, to_comp_file_list, queue, spawned, joined, wpc, wjob,
                   wdir, wconv, wfactor, wimg, wres, pop_count, call_count, attempts>>

CleanupNone ==
    /\ opc = "cleanup"
    /\ fs' = delete_recursive(fs, root).fs
    /\ opc' = "returned"
    /\ UNCHANGED <<fs0, self, to_comp_file_list, queue, spawned, joined, wpc, wjob, wdir,
                   wconv, wfactor, wimg, wres, pop_count, call_count, attempts>>

\* process(): while !queue.is_empty() {
PLoop(w) ==
    /\ wpc[w] = "loop"
    /\ wpc' = [wpc EXCEPT ![w] = IF queue = <<>> THEN "exited" ELSE "pop"]
    /\ UNCHANGED <<fs, lowOrch, queue, wjob, wdir, wconv, wfactor, wimg, wres,
                   pop_count, call_count, attempts>>

\* process(): match queue.pop() { None => break, Some(file) => ...
PPop(w) ==
    /\ wpc[w] = "pop"
    /\ IF queue = <<>>
       THEN /\ wpc' = [wpc EXCEPT ![w] = "exited"]
            /\ UNCHANGED <<queue, wjob, pop_count>>
       ELSE /\ wjob' = [wjob EXCEPT ![w] = Head(queue)]
            /\ queue' = Tail(queue)
            /\ pop_count' = [pop_count EXCEPT ![Head(queue)] = @ + 1]
            /\ wpc' = [wpc EXCEPT ![w] = "mkdir"]
    /\ UNCHANGED <<fs, lowOrch, wdir, wconv, wfactor, wimg, wres, call_count, attempts>>

\* process(): strip_prefix and create_dir_all, each with println! and
\* `continue` on failure.
PMkdir(w) ==
    /\ wpc[w] = "mkdir"
    /\ LET parent == StripPrefix(Parent(wjob[w]), root)
           new_dest_dir == Join(dest, parent.rest)
           skip(res) == /\ wpc' = [wpc EXCEPT ![w] = "loop"]
                        /\ attempts' = attempts \cup {[file |-> wjob[w], res |-> res]}
                        /\ wjob' = [wjob EXCEPT ![w] = NoPath]
                        /\ UNCHANGED <<fs, wdir>>
       IN IF ~parent.ok THEN skip("StripPrefix")
          ELSE IF IsDir(fs, new_dest_dir)
          THEN /\ wdir' = [wdir EXCEPT ![w] = new_dest_dir]
               /\ wpc' = [wpc EXCEPT ![w] = "check"]
               /\ UNCHANGED <<fs, wjob, attempts>>
          ELSE IF CanCreateDirAll(fs, new_dest_dir)
          THEN /\ fs' = CreateDirAll(fs, new_dest_dir)
               /\ wdir' = [wdir EXCEPT ![w] = new_dest_dir]
               /\ wpc' = [wpc EXCEPT ![w] = "check"]
               /\ UNCHANGED <<wjob, attempts>>
          ELSE skip("CreateDir")
    /\ UNCHANGED <<lowOrch, queue, wconv, wfactor, wimg, wres, pop_count, call_count>>

\* process(): match compressor.compress_to_jpg() { Ok(_) => println!, Err(e) =>
\* println! } and back to the head of the loop.
PReport(w) ==
    /\ wpc[w] = "report"
    /\ attempts' = attempts \cup {[file |-> wjob[w], res |-> wres[w]]}
    /\ wpc' = [wpc EXCEPT ![w] = "loop"]
    /\ wjob' = [wjob EXCEPT ![w] = NoPath]
    /\ wdir' = [wdir EXCEPT ![w] = NoPath]
    /\ wconv' = [wconv EXCEPT ![w] = NoPath]
    /\ wfactor' = [wfactor EXCEPT ![w] = NoFactor]
    /\ wimg' = [wimg EXCEPT ![w] = NoImage]
    /\ wres' = [wres EXCEPT ![w] = "none"]
    /\ UNCHANGED <<fs, lowOrch, queue, pop_count, call_count>>

\* A step of compress() without a sink; the steps that send nothing are the
\* same code in both runs.
OrchNoSink ==
    \/ CrawlRoot
    \/ AnnounceNone
    \/ Fill
    \/ Spawn
    \/ Join1
    \/ CompleteNone
    \/ CleanupNone

\* A step of worker w in process(); the steps inside compress_to_jpg are the
\* same code in both runs.
ProcessStep(w) ==
    \/ PLoop(w) \/ PPop(w) \/ PMkdir(w) \/ PReport(w)
    \/ WCheck(w) \/ WConvert(w) \/ WEncode(w) \/ WWrite(w) \/ WDedup(w)
    \/ WRemove(w)

\* ------------------------------------------------------------------ specification
Next ==
    \/ CrawlRoot
    \/ Announce
    \/ Fill
    \/ Spawn
    \/ Join1
    \/ Complete
    \/ Cleanup
    \/ Disconnect
    \/ \E w \in Workers : WLoop(w)
    \/ \E w \in Workers : WPop(w)
    \/ \E w \in Workers : WMkdir(w)
    \/ \E w \in Workers : WCheck(w)
    \/ \E w \in Workers : WConvert(w)
    \/ \E w \in Workers : WEncode(w)
    \/ \E w \in Workers : WWrite(w)
    \/ \E w \in Workers : WDedup(w)
    \/ \E w \in Workers : WRemove(w)
    \/ \E w \in Workers : WReport(w)

Spec == Init /\ [][Next]_vars

\* The runs of a single worker, which calls compress_to_jpg on one file after
\* the other, over the wider family of files.
FileTrees == {S \in SUBSET FileCandidates : Cardinality(S) <= MaxFiles}

FileInit ==
    /\ \E S \in FileTrees, t \in DestTrees : fs = InitialFs(S, t, TRUE)
    /\ fs0 = fs
    /\ self \in [thread_count : {1}, delete_original : BOOLEAN,
                 sender : BOOLEAN, cal : CalFuncs]
    /\ opc = "start"
    /\ to_comp_file_list = <<>>
    /\ queue = <<>>
    /\ spawned = 0
    /\ joined = 0
    /\ wpc = [w \in Workers |-> "idle"]
    /\ wjob = [w \in Workers |-> NoPath]
    /\ wdir = [w \in Workers |-> NoPath]
    /\ wconv = [w \in Workers |-> NoPath]
    /\ wfactor = [w \in Workers |-> NoFactor]
    /\ wimg = [w \in Workers |-> NoImage]
    /\ wres = [w \in Workers |-> "none"]
    /\ chan = <<>>
    /\ rx_alive = TRUE
    /\ pop_count = [p \in FileCandidates |-> 0]
    /\ call_count = [p \in FileCandidates |-> 0]
    /\ attempts = {}

FileSpec == FileInit /\ [][Next]_vars

\* The runs with a progress sink (and the default calculator: the factor of
\* a picture plays no part in what is reported).
SinkInit == Init /\ self.sender /\ self.cal = DefaultCal

SinkSpec == SinkInit /\ [][Next]_vars

\* delete_recursive on its own: compress() stands before it in a run without
\* workers, the source root being a tree of up to three levels whose
\* directories hold a picture, a hidden file, both or nothing; or the root,
\* an empty directory when it was crawled, has since been removed or replaced
\* by a regular file (delete_recursive_test removes it before the call).
PruneDirs ==
    {root, Join(root, <<subDir>>), Join(root, <<subDir, <<"e">> >>), Join(root, << <<"g">> >>)}

PruneDirSets ==
    {D \in SUBSET PruneDirs : root \in D /\ \A x \in D : x = root \/ Parent(x) \in D}

PruneFileNames == {<<"x", ".", "jpg">>, <<".", "h">>}

PruneFiles(D) == {Join(d, <<n>>) : d \in D, n \in PruneFileNames}

\* The trees whose root is no directory: missing, or a regular file.
PruneNoDirTrees ==
    {[files |-> [p \in F |-> Original(p, TRUE, 1)], dirs |-> {dest}] : F \in {{}, {root}}}

PruneTrees ==
    PruneNoDirTrees \cup
    UNION {{[files |-> [p \in F |-> Original(p, TRUE, 1)], dirs |-> D \cup {dest}] :
              F \in {G \in SUBSET PruneFiles(D) : Cardinality(G) <= MaxPruneFiles}} :
           D \in PruneDirSets}

PruneInit ==
    /\ fs \in PruneTrees
    /\ fs0 = fs
    /\ self = [thread_count |-> 0, delete_original |-> TRUE, sender |-> TRUE,
               cal |-> DefaultCal]
    /\ opc = "cleanup"
    /\ \E r \in get_file_list(fs, root) : to_comp_file_list = r.list
    /\ queue = to_comp_file_list
    /\ spawned = 0
    /\ joined = 0
    /\ wpc = [w \in Workers |-> "idle"]
    /\ wjob = [w \in Workers |-> NoPath]
    /\ wdir = [w \in Workers |-> NoPath]
    /\ wconv = [w \in Workers |-> NoPath]
    /\ wfactor = [w \in Workers |-> NoFactor]
    /\ wimg = [w \in Workers |-> NoImage]
    /\ wres = [w \in Workers |-> "none"]
    /\ chan = <<TotalMsg(Len(to_comp_file_list)), CompleteMsg>>
    /\ rx_alive = TRUE
    /\ pop_count = [p \in Candidates |-> 0]
    /\ call_count = [p \in Candidates |-> 0]
    /\ attempts = {}

PruneNext == Cleanup

PruneSpec == PruneInit /\ [][PruneNext]_vars

\* Factor::new on its own: the runs of a single worker over one picture,
\* src/d/c.png, with a calculator that returns Factor::new(quality,
\* size_ratio) for arguments at, inside and outside the limits (size_ratio in
\* hundredths).
QualityInputs == {-1, 0, 1, 80, 100, 101}

RatioInputs == {-1, 0, 1, 80, 100, 101}

FactorInit ==
    /\ fs = InitialFs({fileC}, "empty", TRUE)
    /\ fs0 = fs
    /\ \E quality \in QualityInputs, size_ratio \in RatioInputs,
          delete_original \in BOOLEAN, sender \in BOOLEAN :
          self = [thread_count |-> 1, delete_original |-> delete_original,
                  sender |-> sender, cal |-> const_cal_func(quality, size_ratio)]
    /\ opc = "start"
    /\ to_comp_file_list = <<>>
    /\ queue = <<>>
    /\ spawned = 0
    /\ joined = 0
    /\ wpc = [w \in Workers |-> "idle"]
    /\ wjob = [w \in Workers |-> NoPath]
    /\ wdir = [w \in Workers |-> NoPath]
    /\ wconv = [w \in Workers |-> NoPath]
    /\ wfactor = [w \in Workers |-> NoFactor]
    /\ wimg = [w \in Workers |-> NoImage]
    /\ wres = [w \in Workers |-> "none"]
    /\ chan = <<>>
    /\ rx_alive = TRUE
    /\ pop_count = [p \in Candidates |-> 0]
    /\ call_count = [p \in Candidates |-> 0]
    /\ attempts = {}

FactorSpec == FactorInit /\ [][Next]_vars

\* default_cal_func on its own: the runs of a single worker over one picture,
\* src/a.png, whose length in bytes is at, just above or far from each limit
\* of the default calculator, which no set_cal_func has replaced.
SizeInputs ==
    {50000, 100000, 100001, 300000, 300001, 500000, 500001, 1000000, 1000001,
     5000000, 5000001}

DefaultInit ==
    /\ \E file_size \in SizeInputs :
          fs = [files |-> [p \in {fileD} |-> Original(p, TRUE, file_size)],
                dirs |-> {dest, root, Join(root, <<subDir>>)}]
    /\ fs0 = fs
    /\ self \in [thread_count : {1}, delete_original : BOOLEAN, sender : BOOLEAN,
                 cal : {DefaultCal}]
    /\ opc = "start"
    /\ to_comp_file_list = <<>>
    /\ queue = <<>>
    /\ spawned = 0
    /\ joined = 0
    /\ wpc = [w \in Workers |-> "idle"]
    /\ wjob = [w \in Workers |-> NoPath]
    /\ wdir = [w \in Workers |-> NoPath]
    /\ wconv = [w \in Workers |-> NoPath]
    /\ wfactor = [w \in Workers |-> NoFactor]
    /\ wimg = [w \in Workers |-> NoImage]
    /\ wres = [w \in Workers |-> "none"]
    /\ chan = <<>>
    /\ rx_alive = TRUE
    /\ pop_count = [p \in Candidates |-> 0]
    /\ call_count = [p \in Candidates |-> 0]
    /\ attempts = {}

DefaultSpec == DefaultInit /\ [][Next]_vars

\* delete_duplicate_file in its caller: the runs of a single worker over the
\* trees made of DedupCandidates.
DedupInit ==
    /\ \E S \in SUBSET DedupCandidates, t \in DestTrees : fs = InitialFs(S, t, TRUE)
    /\ fs0 = fs
    /\ self \in [thread_count : {1}, delete_original : BOOLEAN, sender : BOOLEAN,
                 cal : {DefaultCal}]
    /\ opc = "start"
    /\ to_comp_file_list = <<>>
    /\ queue = <<>>
    /\ spawned = 0
    /\ joined = 0
    /\ wpc = [w \in Workers |-> "idle"]
    /\ wjob = [w \in Workers |-> NoPath]
    /\ wdir = [w \in Workers |-> NoPath]
    /\ wconv = [w \in Workers |-> NoPath]
    /\ wfactor = [w \in Workers |-> NoFactor]
    /\ wimg = [w \in Workers |-> NoImage]
    /\ wres = [w \in Workers |-> "none"]
    /\ chan = <<>>
    /\ rx_alive = TRUE
    /\ pop_count = [p \in DedupCandidates |-> 0]
    /\ call_count = [p \in DedupCandidates |-> 0]
    /\ attempts = {}

DedupSpec == DedupInit /\ [][Next]_vars

\* compress() run twice: a caller builds a FolderCompressor and runs it, and
\* when it has returned and the delete flag was false, builds a second one
\* with the same roots and settings and runs it on what the first run left.
\* The field run of self tells which of the two it is; fs0 is the file system
\* the compress() under way started from.
RerunInit ==
    /\ \E S \in FileTrees : fs = InitialFs(S, "empty", TRUE)
    /\ fs0 = fs
    /\ self \in [thread_count : {1}, delete_original : BOOLEAN, sender : BOOLEAN,
                 cal : {DefaultCal}, run : {1}]
    /\ opc = "start"
    /\ to_comp_file_list = <<>>
    /\ queue = <<>>
    /\ spawned = 0
    /\ joined = 0
    /\ wpc = [w \in Workers |-> "idle"]
    /\ wjob = [w \in Workers |-> NoPath]
    /\ wdir = [w \in Workers |-> NoPath]
    /\ wconv = [w \in Workers |-> NoPath]
    /\ wfactor = [w \in Workers |-> NoFactor]
    /\ wimg = [w \in Workers |-> NoImage]
    /\ wres = [w \in Workers |-> "none"]
    /\ chan = <<>>
    /\ rx_alive = TRUE
    /\ pop_count = [p \in FileCandidates |-> 0]
    /\ call_count = [p \in FileCandidates |-> 0]
    /\ attempts = {}

\* The second FolderCompressor::new(..) and its compress(): a new queue and
\* new threads, the caller's channel and the file system as they are.
Rerun ==
    /\ opc = "returned"
    /\ self.run = 1
    /\ ~self.delete_original
    /\ self' = [self EXCEPT !.run = 2]
    /\ fs0' = fs
    /\ opc' = "start"
    /\ to_comp_file_list' = <<>>
    /\ queue' = <<>>
    /\ spawned' = 0
    /\ joined' = 0
    /\ wpc' = [w \in Workers |-> "idle"]
    /\ pop_count' = [p \in DOMAIN pop_count |-> 0]
    /\ call_count' = [p \in DOMAIN call_count |-> 0]
    /\ attempts' = {}
    /\ UNCHANGED <<fs, wjob, wdir, wconv, wfactor, wimg, wres, chan, rx_alive>>

RerunNext == Next \/ Rerun

RerunSpec == RerunInit /\ [][RerunNext]_vars

\* get_file_list on its own: compress() stands before its crawl of a source
\* root of up to three levels, one of whose directories is named ".k"; every
\* directory holds a file x.jpg, a hidden file .h, both or nothing.
CrawlDirs ==
    {root, Join(root, <<subDir>>), Join(root, <<subDir, <<"e">> >>),
     Join(root, << <<".", "k">> >>)}

CrawlDirSets ==
    {D \in SUBSET CrawlDirs : root \in D /\ \A x \in D : x = root \/ Parent(x) \in D}

CrawlTrees ==
    UNION {{[files |-> [p \in F |-> Original(p, TRUE, 1)], dirs |-> D \cup {dest}] :
              F \in {G \in SUBSET PruneFiles(D) : Cardinality(G) <= MaxPruneFiles}} :
           D \in CrawlDirSets}

CrawlInit ==
    /\ fs \in CrawlTrees
    /\ fs0 = fs
    /\ self \in [thread_count : {0}, delete_original : BOOLEAN, sender : BOOLEAN,
                 cal : {DefaultCal}]
    /\ opc = "start"
    /\ to_comp_file_list = <<>>
    /\ queue = <<>>
    /\ spawned = 0
    /\ joined = 0
    /\ wpc = [w \in Workers |-> "idle"]
    /\ wjob = [w \in Workers |-> NoPath]
    /\ wdir = [w \in Workers |-> NoPath]
    /\ wconv = [w \in Workers |-> NoPath]
    /\ wfactor = [w \in Workers |-> NoFactor]
    /\ wimg = [w \in Workers |-> NoImage]
    /\ wres = [w \in Workers |-> "none"]
    /\ chan = <<>>
    /\ rx_alive = TRUE
    /\ pop_count = [p \in Candidates |-> 0]
    /\ call_count = [p \in Candidates |-> 0]
    /\ attempts = {}

CrawlNext == CrawlRoot

CrawlSpec == CrawlInit /\ [][CrawlNext]_vars

\* ------------------------------------------------------------------ properties
AllJobs == {to_comp_file_list[i] : i \in DOMAIN to_comp_file_list}

QueueCount(p) == Cardinality({i \in DOMAIN queue : queue[i] = p})

\* The queue has been filled.
Filled == opc \notin {"start", "announce", "fill", "returnedErr"}

CrawlFails == ~IsDir(fs0, root)

Busy(w) == wpc[w] \notin {"idle", "exited", "panicked"}

Attempted == {a.file : a \in attempts}

KindCount(k) == Cardinality({i \in DOMAIN chan : chan[i].kind = k})

\* The part of a file system under the destination root.
DestTree(f) ==
    [files |-> [p \in {x \in DOMAIN f.files : IsPrefix(dest, x)} |-> f.files[p]],
     dirs |-> {x \in f.dirs : IsPrefix(dest, x)}]

\* C1: every path pushed into the queue is either still queued or was popped
\* once, by one worker; no path is popped twice, held by two workers, handed
\* to compress_to_jpg more than once or attempted twice; and once every
\* worker has left its loop normally each pushed path was popped exactly once.
C1_ExactlyOnce ==
    /\ \A p \in Candidates : pop_count[p] <= 1 /\ call_count[p] <= pop_count[p]
    /\ \A w1, w2 \in Workers :
          (w1 # w2 /\ wjob[w1] # NoPath) => wjob[w1] # wjob[w2]
    /\ Filled => \A p \in AllJobs : QueueCount(p) + pop_count[p] = 1
    /\ \A a, b \in attempts : a.file = b.file => a = b
    /\ (self.thread_count >= 1 /\ opc \in {"complete", "cleanup", "returned"})
          => \A p \in AllJobs : pop_count[p] = 1

\* Two workers hold a job each, both inside compress_to_jpg.
C1_Witness ==
    /\ wjob[1] # NoPath /\ wjob[2] # NoPath
    /\ call_count[wjob[1]] = 1 /\ call_count[wjob[2]] = 1

\* C2: once compress() is past the join loop (it is about to send or has sent
\* "Compress complete!", or is about to run or has run delete_recursive), no
\* worker is popping or processing: every spawned worker has left its loop
\* and holds no job.
C2_JoinBarrier ==
    (\/ opc \in {"complete", "cleanup", "returned"}
     \/ \E i \in DOMAIN chan : chan[i].kind \in {"complete", "cleanup"})
    => \A w \in Workers : ~Busy(w) /\ wpc[w] # "panicked" /\ wjob[w] = NoPath

\* compress() stands before delete_recursive after two workers did two jobs.
C2_Witness ==
    /\ opc = "cleanup"
    /\ self.thread_count = 2
    /\ Cardinality(attempts) = 2

\* C3: with thread_count >= 1 and a crawl that succeeded, a worker ends only
\* by leaving its loop on an empty queue, and compress() ends only by
\* returning Ok, with the queue empty and every queued job attempted.
C3_RunsToCompletion ==
    (self.thread_count >= 1 /\ ~CrawlFails)
    => /\ \A w \in Workers : wpc[w] # "panicked"
       /\ opc \in Stopped
             => opc = "returned" /\ queue = <<>> /\ Attempted = AllJobs

\* A step in which worker w abandons its job: a `continue` of the loop, or an
\* Err of compress_to_jpg that is reported.
JobFails(w) ==
    \/ wpc[w] = "mkdir" /\ wpc'[w] \notin {"mkdir", "check"}
    \/ wpc[w] = "report" /\ wres[w] # "Ok" /\ wpc'[w] # "report"

C4_Step ==
    \A w \in Workers :
        JobFails(w)
        => /\ wpc'[w] = "loop"
           /\ wjob'[w] = NoPath
           /\ wjob[w] \in {a.file : a \in attempts'}
           /\ queue' = queue
           /\ fs' = fs
           /\ \A o \in Workers \ {w} :
                 wpc'[o] = wpc[o] /\ wjob'[o] = wjob[o] /\ wres'[o] = wres[o]

C4_Return ==
    (opc = "returned" /\ \E a \in attempts : a.res # "Ok")
    => queue = <<>> /\ Attempted = AllJobs

\* C4: a job that fails (prefix not stripped, directory not created, Err from
\* compress_to_jpg) is dropped and nothing else: its worker is back at the
\* head of its loop, the queue and the other workers are as they were, and
\* when compress() returns after such failures every queued job was attempted.
C4_FailureIsLocal == [][C4_Step]_vars /\ []C4_Return

\* The only worker holds a job after a job of it has failed.
C4_Witness ==
    /\ self.thread_count = 1
    /\ wjob[1] # NoPath
    /\ \E a \in attempts : a.res \in {"CreateDir", "AlreadyExists", "InvalidData"}

\* C5: no worker thread ends in a panic and compress() does not panic in
\* the join of a worker.
C5_NoAbnormalEnd ==
    /\ \A w \in Workers : wpc[w] # "panicked"
    /\ opc # "panicked"

\* C6: never more than thread_count workers are started and, once the spawn
\* loop is over, exactly thread_count; with thread_count = 0 no worker runs,
\* no job is popped or attempted, the destination tree stays as it was, and
\* compress() does not fail or panic when the crawl succeeded.
C6_ThreadCount ==
    /\ spawned <= self.thread_count
    /\ Cardinality({w \in Workers : wpc[w] # "idle"}) = spawned
    /\ opc \in {"join", "complete", "cleanup", "returned", "panicked"}
          => spawned = self.thread_count
    /\ self.thread_count = 0
          => /\ \A p \in Candidates : pop_count[p] = 0 /\ call_count[p] = 0
             /\ attempts = {}
             /\ DestTree(fs) = DestTree(fs0)
             /\ opc # "panicked"
             /\ (opc \in Stopped /\ ~CrawlFails) => opc = "returned"

\* compress() has returned Ok with no worker and jobs left in the queue.
C6_Witness ==
    /\ self.thread_count = 0
    /\ opc = "returned"
    /\ queue # <<>>

\* C7: when the crawl of the source root fails, compress() only returns the
\* error: no message is sent, the queue stays empty, no worker is started,
\* delete_recursive is not run and the file system is as it was; and
\* compress() returns an error only then.
C7_CrawlFailure ==
    /\ CrawlFails
          => /\ opc \in {"start", "returnedErr"}
             /\ chan = <<>>
             /\ queue = <<>>
             /\ spawned = 0
             /\ \A w \in Workers : wpc[w] = "idle"
             /\ attempts = {}
             /\ fs = fs0
    /\ opc = "returnedErr" => CrawlFails

\* compress() has returned the crawl's error, with a sink, workers and the
\* delete flag configured.
C7_Witness ==
    /\ opc = "returnedErr"
    /\ self.sender /\ self.delete_original /\ self.thread_count >= 1

\* C8: when the crawl succeeds compress() ends only by returning Ok.
C8_ReturnsOk == (~CrawlFails /\ opc \in Stopped) => opc = "returned"

\* The order of the messages: the total first and only first, no job
\* message after "Compress complete!", nothing after the cleanup result.
Ordered(c) ==
    /\ \A i \in DOMAIN c : c[i].kind = "total" <=> i = 1
    /\ \A i, j \in DOMAIN c :
          i < j => /\ ~(c[i].kind = "complete" /\ c[j].kind \in {"job", "complete"})
                   /\ c[i].kind # "cleanup"
    /\ \A j \in DOMAIN c : c[j].kind = "cleanup" => (j > 1 /\ c[j - 1].kind = "complete")

\* C9 as amended: with a sink, the total comes first, before any worker is
\* started, and counts the queued jobs; the job messages follow; "Compress
\* complete!" comes once, after every worker has ended; and one cleanup
\* result follows it exactly when delete_original is set.
C9_MessageOrder ==
    self.sender
    => /\ Ordered(chan)
       /\ chan # <<>> => chan[1].text[2] = Len(to_comp_file_list)
       /\ (rx_alive /\ (spawned > 0 \/ queue # <<>>)) => chan # <<>>
       /\ KindCount("complete") > 0 => \A w \in Workers : ~Busy(w)
       /\ KindCount("cleanup") > 0 => self.delete_original /\ opc = "returned"
       /\ (rx_alive /\ opc = "returned")
             => /\ KindCount("total") = 1
                /\ KindCount("complete") = 1
                /\ KindCount("cleanup") = IF self.delete_original THEN 1 ELSE 0

\* compress() has returned with every kind of message received.
C9_Witness ==
    /\ opc = "returned"
    /\ rx_alive
    /\ KindCount("job") = 2
    /\ KindCount("cleanup") = 1

\* C9 as claimed: at the return, the messages are in order and the last one is
\* the one cleanup-result message.
C9_Original ==
    (self.sender /\ rx_alive /\ opc = "returned")
    => /\ Ordered(chan)
       /\ KindCount("cleanup") = 1
       /\ chan[Len(chan)].kind = "cleanup"

\* C10: with a sink and a live receiver there is one job message for every
\* job a worker is done with, and at the return of a run with workers as
\* many job messages as the total announced.
C10_OneMessagePerJob ==
    (self.sender /\ rx_alive)
    => /\ KindCount("job") = Cardinality(attempts)
       /\ (opc = "returned" /\ self.thread_count >= 1)
             => KindCount("job") = chan[1].text[2]

\* C11: the sink only observes.  Every step of a run with a sink, seen without
\* the channel, is the step the run without a sink takes from the same state:
\* a step that moves compress() is a step of compress() without a sink, any
\* other is a step of process() by the worker that moved, with the same job
\* popped, the same skip, continue and exit decisions and the same change of
\* the source and destination trees; steps that only touch the channel or
\* the receiver change nothing else.
C11_SinkIsObserver ==
    [][self.sender =>
         IF opc' # opc \/ spawned' # spawned \/ joined' # joined
         THEN OrchNoSink
         ELSE \E w \in Workers : wpc'[w] # wpc[w] /\ ProcessStep(w)]_lowVars

\* A run with a sink has returned after a job was skipped without a message,
\* a job was reported through the sink and the receiver was dropped.
C11_Witness ==
    /\ self.sender
    /\ opc = "returned"
    /\ ~rx_alive
    /\ KindCount("job") >= 1
    /\ \E a \in attempts : a.res = "CreateDir"
    /\ \E a \in attempts : a.res = "AlreadyExists"

\* C12: once the receiver of the sink is gone, in a run with workers whose
\* crawl succeeded, no
\* worker stops (a worker ends only by leaving its loop on an empty queue),
\* and compress() ends only by returning Ok with every queued job attempted.
C12_DisconnectIsSilent ==
    (self.sender /\ ~rx_alive /\ self.thread_count >= 1 /\ ~CrawlFails)
    => /\ \A w \in Workers : wpc[w] # "panicked"
       /\ \A w \in Workers : wpc[w] = "exited" => queue = <<>>
       /\ opc \in Stopped => opc = "returned" /\ Attempted = AllJobs

\* A file's directory and stem.
StemOf(p) == Join(Parent(p), <<FileStem(FileName(p))>>)

\* The stems of the non-hidden files under the destination root, as the
\* crawl of the destination lists them.
DestStems(f) ==
    {StemOf(p) : p \in {x \in DOMAIN f.files : IsPrefix(dest, x) /\ ~IsHidden(FileName(x))}}

\* The non-hidden files under the source root.
SourceFiles(f) == {x \in DOMAIN f.files : IsPrefix(root, x) /\ ~IsHidden(FileName(x))}

\* The directory of the destination tree that mirrors the directory of p.
MirrorDir(p) == Join(dest, StripPrefix(Parent(p), root).rest)

\* What the trees at the start alone say the destination stems will be:
\* those that were there, and one for every source file whose mirror
\* directory is there or can be made.
StemsByInput ==
    DestStems(fs0)
    \cup {Join(MirrorDir(p), <<FileStem(FileName(p))>>) :
            p \in {x \in SourceFiles(fs0) :
                      IsDir(fs0, MirrorDir(x)) \/ CanCreateDirAll(fs0, MirrorDir(x))}}

DestFilesOf(f) == {x \in DOMAIN f.files : IsPrefix(dest, x) /\ ~IsHidden(FileName(x))}

\* q is what the destination should hold for the source file p: in the
\* mirror directory, with p's stem, and either p compressed into <stem>.jpg
\* or, when p cannot be decoded, p's bytes under p's name.
MirrorOf(f, p, q) ==
    /\ Parent(q) = MirrorDir(p)
    /\ FileStem(FileName(q)) = FileStem(FileName(p))
    /\ IF fs0.files[p].dec
       THEN /\ FileName(q) = FileStem(FileName(p)) \o <<".", "jpg">>
            /\ f.files[q].tag = "comp" /\ f.files[q].of = p
       ELSE /\ FileName(q) = FileName(p)
            /\ f.files[q] = fs0.files[p]

\* C14: when compress() has returned from a run with a worker, without the
\* delete flag, into a destination root that was empty, every non-hidden
\* source file has its mirror in the destination, every destination file is
\* the mirror of a source file, and there are as many destination files as
\* source files.
C14_DestMirrorsSource ==
    (/\ opc = "returned" /\ ~self.delete_original /\ self.thread_count >= 1
     /\ DestTree(fs0) = [files |-> << >>, dirs |-> {dest}])
    => /\ \A p \in SourceFiles(fs0) : \E q \in DestFilesOf(fs) : MirrorOf(fs, p, q)
       /\ \A q \in DestFilesOf(fs) : \E p \in SourceFiles(fs0) : MirrorOf(fs, p, q)
       /\ Cardinality(DestFilesOf(fs)) = Cardinality(SourceFiles(fs0))

\* The destination directory of worker w's call holds <stem>.jpg or a file
\* with the name of the source.
Collides(w) ==
    \/ IsFile(fs, Join(wdir[w], <<FileStem(FileName(wjob[w])) \o <<".", "jpg">> >>))
    \/ IsFile(fs, Join(wdir[w], <<FileName(wjob[w])>>))

C15_Step ==
    \A w \in Workers :
        /\ (wpc[w] = "check" /\ wpc'[w] # "check" /\ Collides(w))
              => wpc'[w] = "report" /\ wres'[w] = "AlreadyExists" /\ fs' = fs
        /\ (wpc[w] = "report" /\ wres[w] = "AlreadyExists" /\ wpc'[w] # "report")
              => /\ fs' = fs
                 /\ [file |-> wjob[w], res |-> "AlreadyExists"] \in attempts'

C16_UndecodableIsCopied ==
    \A a \in attempts :
        (~fs0.files[a.file].dec /\ a.res \notin {"AlreadyExists", "StripPrefix", "CreateDir"})
        => LET copy == Join(MirrorDir(a.file), <<FileName(a.file)>>)
           IN /\ a.res # "Ok"
              /\ IsFile(fs, copy) /\ fs.files[copy] = fs0.files[a.file]
              /\ \A q \in DestFilesOf(fs) :
                    ~(fs.files[q].tag = "comp" /\ fs.files[q].of = a.file)

\* C17: whenever compress_to_jpg is about to return Ok(p) to worker w, p (the
\* target_file of the call) is <destination dir>/<source stem>.jpg and a
\* compressed file is at p.
C17_OkMeansWritten ==
    \A w \in Workers :
        wres[w] = "Ok"
        => LET p == TargetFile(wdir[w], wjob[w])
           IN /\ wpc[w] = "report"
              /\ p = Join(wdir[w], <<FileStem(FileName(wjob[w])) \o <<".", "jpg">> >>)
              /\ IsFile(fs, p) /\ fs.files[p].tag = "comp"

\* The compressed output of worker w's call is in the destination.
OutputWritten(w) ==
    /\ IsFile(fs, TargetFile(wdir[w], wjob[w]))
    /\ fs.files[TargetFile(wdir[w], wjob[w])].tag = "comp"

\* A step of worker w's call after which the source file of the call is gone.
C18_Step ==
    \A w \in Workers :
        (/\ wpc'[w] # wpc[w] /\ wjob[w] # NoPath
         /\ IsFile(fs, wjob[w]) /\ ~IsFile(fs', wjob[w]))
        => /\ wpc[w] = "remove" /\ self.delete_original /\ OutputWritten(w)
           /\ wpc'[w] = "report" /\ wres'[w] = "Ok"

\* C18: the only step of a compress_to_jpg call that removes the call's
\* source file is its fs::remove_file, taken only with the delete flag set,
\* only with the compressed output in the destination, and followed by the
\* return of Ok; so no call that returns an error before that step, and no
\* call without the flag, deletes its source.
C18_DeleteOnlyAfterWrite ==
    /\ [][C18_Step]_vars
    /\ [](\A w \in Workers :
            wpc[w] = "remove" => self.delete_original /\ OutputWritten(w))

\* A call has just removed its source after writing the output.
C18_Witness ==
    \E w \in Workers :
        /\ wpc[w] = "report" /\ wres[w] = "Ok"
        /\ ~IsFile(fs, wjob[w])
        /\ OutputWritten(w)

\* The directories from the source root down to the directory of p.
SourceAncestors(p) == {x \in Prefixes(Parent(p)) : IsPrefix(root, x)}

\* C19: when a run with the delete flag and with workers has returned, every
\* file whose job ended in a failure is still at its path with all the
\* directories above it up to the source root, the cleanup result received
\* (if a receiver listens) is a failure whenever there is such a file, and
\* every non-hidden source file that is gone was compressed with success.
C19_FailedSourcesKept ==
    (opc = "returned" /\ self.delete_original /\ self.thread_count >= 1)
    => /\ \A a \in attempts :
             a.res # "Ok"
             => /\ IsFile(fs, a.file)
                /\ \A x \in SourceAncestors(a.file) : IsDir(fs, x)
                /\ (self.sender /\ rx_alive)
                      => chan[Len(chan)] = CleanupMsg([ok |-> FALSE, kind |-> "AlreadyExists"])
       /\ \A p \in SourceFiles(fs0) :
             ~IsFile(fs, p) => [file |-> p, res |-> "Ok"] \in attempts

\* Directory d holds a non-hidden file somewhere in its subtree.
HasVisible(f, d) == \E p \in DOMAIN f.files : IsPrefix(d, p) /\ ~IsHidden(FileName(p))

\* delete_recursive has been called on the source root and the receiver has
\* its result.
Pruned == opc = "returned" /\ self.delete_original /\ self.sender /\ rx_alive

PruneFailed == chan[Len(chan)] = CleanupMsg([ok |-> FALSE, kind |-> "AlreadyExists"])

\* C20 as amended: when delete_recursive was called on a tree that holds a
\* non-hidden file, it has failed, every non-hidden file is as it was, and a
\* directory of the tree still exists exactly when its subtree held a
\* non-hidden file: the sub-branches without one have been removed.
C20_KeepsWhatHoldsFiles ==
    (Pruned /\ IsDir(fs0, root) /\ HasVisible(fs0, root))
    => /\ PruneFailed
       /\ \A d \in {x \in fs0.dirs : IsPrefix(root, x)} :
             IsDir(fs, d) <=> HasVisible(fs0, d)
       /\ \A p \in SourceFiles(fs0) : IsFile(fs, p) /\ fs.files[p] = fs0.files[p]

\* The call has failed on a tree with a picture three levels deep and has
\* removed the empty sibling branch g.
C20_Witness ==
    /\ Pruned
    /\ IsFile(fs0, Join(root, <<subDir, <<"e">>, <<"x", ".", "jpg">> >>))
    /\ IsDir(fs0, Join(root, << <<"g">> >>))
    /\ ~IsDir(fs, Join(root, << <<"g">> >>))

\* C20 as claimed: when delete_recursive was called on a tree that holds a
\* non-hidden file, it has failed and every directory of the tree still
\* exists.
C20_Original ==
    (Pruned /\ IsDir(fs0, root) /\ HasVisible(fs0, root))
    => /\ PruneFailed
       /\ \A d \in {x \in fs0.dirs : IsPrefix(root, x)} : IsDir(fs, d)

\* The directories of the tree delete_recursive was called on.
PrunedDirs == {x \in fs0.dirs : IsPrefix(root, x)}

PruneOk == chan[Len(chan)] = CleanupMsg([ok |-> TRUE, kind |-> "Ok"])

\* C21: after delete_recursive was called on a directory, whether it
\* returned Ok or Err, a directory of the tree is gone exactly when its
\* subtree held no non-hidden file; the call returned Err exactly when the
\* tree held a non-hidden file and Ok otherwise; every non-hidden file and
\* the destination tree are as they were.
C21_RemovesExactlyTheEmpty ==
    (Pruned /\ IsDir(fs0, root))
    => /\ \A d \in PrunedDirs : ~IsDir(fs, d) <=> ~HasVisible(fs0, d)
       /\ PruneFailed <=> HasVisible(fs0, root)
       /\ PruneOk <=> ~HasVisible(fs0, root)
       /\ \A p \in SourceFiles(fs0) : IsFile(fs, p) /\ fs.files[p] = fs0.files[p]
       /\ DestTree(fs) = DestTree(fs0)

\* The call returned Err: the directory d with a picture is kept, its empty
\* child e and its sibling g, which holds only a hidden file, are gone.
C21_Witness ==
    /\ Pruned
    /\ PruneFailed
    /\ IsFile(fs0, Join(root, <<subDir, <<"x", ".", "jpg">> >>))
    /\ IsDir(fs0, Join(root, <<subDir, <<"e">> >>))
    /\ IsFile(fs0, Join(root, << <<"g">>, <<".", "h">> >>))
    /\ IsDir(fs, Join(root, <<subDir>>))
    /\ ~IsDir(fs, Join(root, <<subDir, <<"e">> >>))
    /\ ~IsDir(fs, Join(root, << <<"g">> >>))

\* C22: after delete_recursive was called on a tree of directories that are
\* empty or hold only hidden files, it has returned Ok and neither the root
\* of the call nor any directory or file below it exists.
C22_EmptyTreeIsRemoved ==
    (Pruned /\ IsDir(fs0, root) /\ ~HasVisible(fs0, root))
    => /\ PruneOk
       /\ ~IsDir(fs, root)
       /\ \A x \in fs.dirs \cup DOMAIN fs.files : ~IsPrefix(root, x)

\* The tree had three levels and hidden files at the top and at the bottom.
C22_Witness ==
    /\ Pruned
    /\ PruneOk
    /\ IsFile(fs0, Join(root, << <<".", "h">> >>))
    /\ IsFile(fs0, Join(root, <<subDir, <<"e">>, <<".", "h">> >>))
    /\ ~IsDir(fs, root)

PruneInvalid == chan[Len(chan)] = CleanupMsg([ok |-> FALSE, kind |-> "InvalidInput"])

\* C23: after delete_recursive was called on a path that is no existing
\* directory (a regular file or a missing path), it has returned the
\* InvalidInput error, which is not the not-empty error, and the file system
\* is as it was.
C23_NotADirectoryIsInvalidInput ==
    (Pruned /\ ~IsDir(fs0, root))
    => /\ PruneInvalid
       /\ ~PruneFailed
       /\ fs = fs0

\* The call was made on a regular file, which is still there.
C23_Witness == Pruned /\ IsFile(fs0, root) /\ PruneInvalid /\ IsFile(fs, root)

\* The call was made on a missing path.
C23_WitnessMissing == Pruned /\ ~IsFile(fs0, root) /\ ~IsDir(fs0, root) /\ PruneInvalid

\* The files and directories of the source tree in f.
SourceTree(f) ==
    [files |-> {p \in DOMAIN f.files : IsPrefix(root, p)},
     dirs |-> {x \in f.dirs : IsPrefix(root, x)}]

\* C24: without the delete flag compress() never stands at its call of
\* delete_recursive, no cleanup result is sent and every file and directory
\* the source tree had is still there; with the flag, delete_recursive is
\* called only once every spawned worker has been joined, and a run that has
\* returned has sent exactly one cleanup result.
C24_CleanupGatedOnFlag ==
    /\ ~self.delete_original
       => /\ opc # "cleanup"
          /\ KindCount("cleanup") = 0
          /\ SourceTree(fs0).files \subseteq SourceTree(fs).files
          /\ SourceTree(fs0).dirs \subseteq SourceTree(fs).dirs
    /\ self.delete_original
       => /\ opc = "cleanup"
             => /\ joined = self.thread_count
                /\ \A w \in Workers : ~Busy(w)
                /\ KindCount("cleanup") = 0
          /\ (opc = "returned" /\ self.sender /\ rx_alive) => KindCount("cleanup") = 1

\* The crawl of compress() has returned its list.
Crawled == opc = "announce"

\* The regular files below the root whose own name does not start with '.'.
VisibleFiles(f) == {p \in DOMAIN f.files : IsPrefix(root, p) /\ FileName(p)[1] # "."}

\* C25: the list get_file_list has returned for a directory tree holds
\* exactly the regular files below the root whose leaf name does not start
\* with '.', each once, and no directory: a hidden file is left out at any
\* depth, and a file below a directory named ".k" is listed.
C25_ListsExactlyVisibleFiles ==
    /\ (opc = "start" /\ IsDir(fs, root)) => \A r \in get_file_list(fs, root) : r.ok
    /\ Crawled
       => /\ AllJobs = VisibleFiles(fs0)
          /\ Len(to_comp_file_list) = Cardinality(VisibleFiles(fs0))
          /\ \A p \in AllJobs : ~IsDir(fs0, p)
          /\ \A p \in DOMAIN fs0.files : FileName(p)[1] = "." => p \notin AllJobs

\* The tree held a picture below the directory .k and a hidden file two
\* levels down: the picture was listed alone.
C25_Witness ==
    /\ Crawled
    /\ IsFile(fs0, Join(root, << <<".", "k">>, <<"x", ".", "jpg">> >>))
    /\ IsFile(fs0, Join(root, <<subDir, <<"e">>, <<".", "h">> >>))
    /\ to_comp_file_list = << Join(root, << <<".", "k">>, <<"x", ".", "jpg">> >>) >>

\* The arguments the calculator of the run passes to Factor::new.
GivenQuality == self.cal.quality

GivenRatio == self.cal.size_ratio

\* 0 < quality <= 100 and 0 < size_ratio <= 1 (hundredths).
InFactorRange == (0 < GivenQuality /\ GivenQuality <= 100) /\ (0 < GivenRatio /\ GivenRatio <= 100)

\* The worker's call of Factor::new has panicked.
FactorFailed == wpc[1] = "panicked" /\ wres[1] = "BadFactor"

\* The worker has called the calculator for src/d/c.png.
FactorCalled == call_count[fileC] = 1 /\ wpc[1] \notin {"convert", "encode"}

\* Where the compressed picture of src/d/c.png is written.
FactorOutput == Join(dest, <<subDir, <<"c", ".", "jpg">> >>)

\* C26: Factor::new(quality, size_ratio) yields a Factor exactly when
\* 0 < quality <= 100 and 0 < size_ratio <= 1; the Factor a worker holds and
\* the one its output was encoded with carry the given values, and for
\* arguments outside the ranges the call has failed and no Factor exists.
C26_FactorExactlyInRange ==
    /\ FactorNew(GivenQuality, GivenRatio).ok <=> InFactorRange
    /\ wfactor[1].ok
       => /\ InFactorRange
          /\ wfactor[1].quality = GivenQuality
          /\ wfactor[1].size_ratio = GivenRatio
    /\ FactorFailed <=> (FactorCalled /\ ~InFactorRange)
    /\ FactorFailed => ~wfactor[1].ok /\ ~IsFile(fs, FactorOutput)
    /\ IsFile(fs, FactorOutput)
       => /\ fs.files[FactorOutput].q = GivenQuality
          /\ fs.files[FactorOutput].r = GivenRatio

\* A Factor was built at both upper limits, quality 100 and size_ratio 1.
C26_Witness ==
    /\ wfactor[1] = [ok |-> TRUE, quality |-> 100, size_ratio |-> 100]
    /\ GivenQuality = 100
    /\ GivenRatio = 100

\* Factor::new(0, 1) has failed.
C26_WitnessZero == FactorFailed /\ GivenQuality = 0 /\ GivenRatio = 100

\* Where the compressed picture of src/a.png is written.
DefaultOutput == Join(dest, << <<"a", ".", "jpg">> >>)

\* The length in bytes of src/a.png when the run started.
GivenSize == fs0.files[fileD].size

\* The picture has been compressed with quality q and size ratio r
\* (hundredths).
CompressedWith(q, r) ==
    /\ fs.files[DefaultOutput].tag = "comp"
    /\ fs.files[DefaultOutput].q = q
    /\ fs.files[DefaultOutput].r = r

\* C27 as amended: without a configured calculator a file is compressed
\* with the factor the default calculator derives from the file's length in
\* bytes alone: 60 and 0.7 above 5,000,000, 65 and 0.75 above 1,000,000, 70
\* and 0.8 above 500,000, 75 and 0.85 above 300,000, 80 and 0.9 above
\* 100,000, and 85 and 1.0 otherwise.
C27_DefaultFactorBySize ==
    (self.cal = DefaultCal /\ IsFile(fs, DefaultOutput))
    => IF GivenSize > 5000000 THEN CompressedWith(60, 70)
       ELSE IF GivenSize > 1000000 THEN CompressedWith(65, 75)
       ELSE IF GivenSize > 500000 THEN CompressedWith(70, 80)
       ELSE IF GivenSize > 300000 THEN CompressedWith(75, 85)
       ELSE IF GivenSize > 100000 THEN CompressedWith(80, 90)
       ELSE CompressedWith(85, 100)

\* A picture of 5,000,001 bytes was compressed with quality 60 and ratio 0.7.
C27_Witness ==
    /\ self.cal = DefaultCal
    /\ GivenSize = 5000001
    /\ IsFile(fs, DefaultOutput)
    /\ CompressedWith(60, 70)

\* C27 as claimed: without a configured calculator every file is compressed
\* with quality 80 and size ratio 0.8, whatever its size.
C27_Original ==
    (self.cal = DefaultCal /\ IsFile(fs, DefaultOutput)) => CompressedWith(80, 80)

\* The number of pops made so far, over the paths of S.
RECURSIVE Popped(_)
Popped(S) ==
    IF S = {} THEN 0
    ELSE LET p == CHOOSE x \in S : TRUE IN pop_count[p] + Popped(S \ {p})

\* How often p stands in the crawl's list.
CrawlCount(p) == Cardinality({i \in DOMAIN to_comp_file_list : to_comp_file_list[i] = p})

\* C28: the queue is empty and no worker runs until the queue has been
\* filled; from then on the jobs queued plus the jobs popped are the files
\* crawled, in number and path by path, and a job that was tried, whatever
\* its result, is not in the queue again.
C28_QueueFilledOnce ==
    /\ ~Filled => queue = <<>> /\ spawned = 0 /\ Popped(DOMAIN pop_count) = 0
    /\ Filled
       => /\ Len(queue) + Popped(DOMAIN pop_count) = Len(to_comp_file_list)
          /\ \A p \in DOMAIN pop_count : QueueCount(p) + pop_count[p] = CrawlCount(p)
          /\ \A i \in DOMAIN queue : queue[i] \in DOMAIN pop_count
    /\ \A a \in attempts : QueueCount(a.file) = 0

\* A job has failed while another job is still queued and a second worker
\* is looking for work.
C28_Witness ==
    /\ \E a \in attempts : a.res # "Ok"
    /\ Len(queue) = 1
    /\ \E w \in Workers : wpc[w] = "pop"

\* Another file stands in the directory of p with the stem of p.
HasStemSibling(f, p) ==
    \E x \in DOMAIN f.files :
        /\ x # p
        /\ Parent(x) = Parent(p)
        /\ FileStem(FileName(x)) = FileStem(FileName(p))

\* Worker w's call delete_duplicate_file(wconv[w]) is made in this step.
DedupStep(w) == wpc[w] = "dedup" /\ wpc'[w] # "dedup"

\* C29: a call delete_duplicate_file(p) removes p only when another file of
\* p's directory has the stem of p; when none has, it returns an error and
\* leaves the file system as it is; and the call changes no other file, the
\* source of the conversion among them.
C29_DedupOnlyWithSibling ==
    [][\A w \in Workers :
         DedupStep(w)
         => /\ (IsFile(fs, wconv[w]) /\ ~IsFile(fs', wconv[w]))
               => HasStemSibling(fs, wconv[w])
            /\ ~HasStemSibling(fs, wconv[w])
               => fs' = fs /\ wres'[w] \notin {"Ok", "none"}
            /\ \A p \in DOMAIN fs.files :
                  p # wconv[w] => (IsFile(fs', p) /\ fs'.files[p] = fs.files[p])]_vars

\* Where the job for the source file p writes its compressed picture.
DestPathOf(p) ==
    Join(dest, SubSeq(Parent(p), Len(root) + 1, Len(p) - 1) \o <<TargetName(FileName(p))>>)

\* C30: no destination path is written by more than one job of a run: of
\* two jobs whose sources map to the same destination path, at most one
\* has written its picture and returned Ok, under every interleaving.
C30_OneWriterPerPath ==
    \A a, b \in attempts :
        (a.file # b.file /\ DestPathOf(a.file) = DestPathOf(b.file))
        => ~(a.res = "Ok" /\ b.res = "Ok")

\* C30 in the runs of at most one worker, where the second job finds the
\* destination taken: one job has returned Ok and the other AlreadyExists.
C30_OneWorker ==
    self.thread_count <= 1
    => \A a, b \in attempts :
          (/\ a.file # b.file
           /\ DestPathOf(a.file) = DestPathOf(b.file)
           /\ ~IsFile(fs0, DestPathOf(a.file)))
          => {a.res, b.res} = {"Ok", "AlreadyExists"}

\* The files below the source root with what they hold.
SourceContent(f) == [p \in {x \in DOMAIN f.files : IsPrefix(root, x)} |-> f.files[p]]

\* C31: in a run of one worker without the delete flag, whenever a call of
\* compress_to_jpg has returned, Ok or Err, the source tree holds the files
\* it held when the run started, with what they held: none added, none
\* removed, none overwritten.
C31_SourceUntouched ==
    (~self.delete_original /\ self.thread_count = 1 /\ wpc[1] = "report")
    => SourceContent(fs) = SourceContent(fs0)

\* C31 on the trees that do not hold both a.jpg and a.png.
C31_WithoutSibling ==
    ~(IsFile(fs0, fileA) /\ IsFile(fs0, fileD)) => C31_SourceUntouched

\* The destination holds a compressed picture made from the source file p.
CompressedFrom(f, p) ==
    \E q \in DOMAIN f.files :
        IsPrefix(dest, q) /\ f.files[q].tag = "comp" /\ f.files[q].of = p

\* The files the source tree held when the run started and holds no more.
RemovedSources == {p \in DOMAIN fs0.files : IsPrefix(root, p) /\ ~IsFile(fs, p)}

\* C32: in a run with the delete flag, a file that is gone from the source
\* tree is not a hidden file, and a compressed picture made from it is in the
\* destination tree.
C32_RemovedOnlyIfCompressed ==
    self.delete_original
    => \A p \in RemovedSources : ~IsHidden(FileName(p)) /\ CompressedFrom(fs, p)

\* C32 for the files that are not hidden, on the trees that do not hold both
\* a.jpg and a.png.
C32_VisibleWithoutSibling ==
    (self.delete_original /\ ~(IsFile(fs0, fileA) /\ IsFile(fs0, fileD)))
    => \A p \in RemovedSources : ~IsHidden(FileName(p)) => CompressedFrom(fs, p)

\* C32 for the hidden files, before Cleanup has run.
C32_WorkersKeepHidden ==
    (self.delete_original /\ opc # "returned")
    => \A p \in RemovedSources : ~IsHidden(FileName(p))

\* C33: in the second of two compress() runs without the delete flag on the
\* same roots, the destination tree stays as the first run left it and every
\* job that has ended has failed with AlreadyExists.
C33_SecondRunChangesNothing ==
    self.run = 2
    => /\ DestTree(fs) = DestTree(fs0)
       /\ \A a \in attempts : a.res = "AlreadyExists"

\* C33 for the destination tree alone.
C33_DestinationKept == self.run = 2 => DestTree(fs) = DestTree(fs0)

\* C33 on the trees without the picture that cannot be decoded, e.jpg.
C33_WithoutUndecodableJpg == ~IsFile(fs0, fileE) => C33_SecondRunChangesNothing

====
